---- MODULE Spec2Model ----
(***************************************************************************)
(* A model of cbor_lite.py: the CBOREncoder (an append-only byte buffer)   *)
(* and the CBORDecoder (an input buffer and a read cursor).                *)
(*                                                                         *)
(* Python integers are unbounded, TLC's are 32 bits wide, so a Python int  *)
(* is modelled as a sign and a magnitude, the magnitude being the sequence *)
(* of its base-256 digits, least significant first, without leading zero   *)
(* digits (0 is the empty sequence).  Shifts by multiples of eight, masks  *)
(* with 0xff, bit_length, comparison with a small constant and the         *)
(* addition of a small constant are computed on that representation.       *)
(* Byte counts, cursor positions and header octets are small and are       *)
(* plain integers.                                                         *)
(***************************************************************************)
EXTENDS Integers, Sequences, FiniteSets, TLC

VARIABLES enc, log, dstate, dbuf, pos, ndec, last

vars == <<enc, log, dstate, dbuf, pos, ndec, last>>

(***************************************************************************)
(* Python values.                                                          *)
(***************************************************************************)
PyInt(neg, mag) == [t |-> "int", neg |-> neg, mag |-> mag]
PyBool(b) == [t |-> "bool", neg |-> FALSE, mag |-> IF b THEN <<1>> ELSE <<>>]
PyBytes(s) == [t |-> "bytes", neg |-> FALSE, mag |-> s]
PyStr(s) == [t |-> "str", neg |-> FALSE, mag |-> s]
PyNone == [t |-> "none", neg |-> FALSE, mag |-> <<>>]

RECURSIVE Normalize(_)
Normalize(s) ==
    IF s = <<>> THEN <<>>
    ELSE IF s[Len(s)] = 0 THEN Normalize(SubSeq(s, 1, Len(s) - 1))
    ELSE s

RECURSIVE FromNat(_)
FromNat(n) == IF n = 0 THEN <<>> ELSE <<n % 256>> \o FromNat(n \div 256)

\* The value of a magnitude of at most three digits (below 2^24).
RECURSIVE ToNat(_)
ToNat(s) == IF s = <<>> THEN 0 ELSE s[1] + 256 * ToNat(Tail(s))

Nat2Py(n) == PyInt(FALSE, FromNat(n))

Digit(mag, k) == IF k <= Len(mag) THEN mag[k] ELSE 0

RECURSIVE BitOr(_, _)
BitOr(a, b) ==
    IF a = 0 THEN b
    ELSE IF b = 0 THEN a
    ELSE (IF a % 2 = 1 \/ b % 2 = 1 THEN 1 ELSE 0) + 2 * BitOr(a \div 2, b \div 2)

RECURSIVE BitAnd(_, _)
BitAnd(a, b) ==
    IF a = 0 \/ b = 0 THEN 0
    ELSE (IF a % 2 = 1 /\ b % 2 = 1 THEN 1 ELSE 0) + 2 * BitAnd(a \div 2, b \div 2)

RECURSIVE BitLen(_)
BitLen(d) == IF d = 0 THEN 0 ELSE 1 + BitLen(d \div 2)

\* value < n, for a small constant n (0 < n <= 256)
LessThanSmall(value, n) ==
    \/ value.neg
    \/ Len(value.mag) = 0
    \/ Len(value.mag) = 1 /\ value.mag[1] < n

\* value.bit_length()
bit_length(value) ==
    IF value.mag = <<>> THEN 0
    ELSE 8 * (Len(value.mag) - 1) + BitLen(value.mag[Len(value.mag)])

\* (value >> shift) & 0xff, for value >= 0 and shift a multiple of 8
ShiftRightMask(value, shift) == Digit(value.mag, shift \div 8 + 1)

\* value | (byte << shift), for value >= 0 and shift a multiple of 8
OrShiftLeft(value, byte, shift) ==
    LET k == shift \div 8 + 1
        n == IF Len(value.mag) > k THEN Len(value.mag) ELSE k
    IN PyInt(FALSE, Normalize([i \in 1..n |->
           IF i = k THEN BitOr(Digit(value.mag, i), byte) ELSE Digit(value.mag, i)]))

\* mag + n on magnitudes, n small
RECURSIVE AddMag(_, _)
AddMag(mag, n) ==
    IF n = 0 THEN mag
    ELSE IF mag = <<>> THEN FromNat(n)
    ELSE <<(mag[1] + n) % 256>> \o AddMag(Tail(mag), (mag[1] + n) \div 256)

\* mag - n on magnitudes, n small and mag >= n
RECURSIVE SubMag(_, _)
SubMag(mag, n) ==
    IF n = 0 THEN mag
    ELSE IF mag[1] >= n THEN <<mag[1] - n>> \o Tail(mag)
    ELSE <<(mag[1] + 256 - n) % 256>> \o SubMag(Tail(mag), 1)

MagAtMost(mag, n) == Len(mag) = 0 \/ (Len(mag) = 1 /\ mag[1] <= n)

\* n + value, n a small non-negative constant
AddSmall(n, value) ==
    IF ~value.neg THEN PyInt(FALSE, AddMag(value.mag, n))
    ELSE IF MagAtMost(value.mag, n) THEN PyInt(FALSE, FromNat(n - ToNat(value.mag)))
    ELSE PyInt(TRUE, Normalize(SubMag(value.mag, n)))

\* -1 - value, value >= 0
MinusOneMinus(value) == PyInt(TRUE, AddMag(value.mag, 1))

(***************************************************************************)
(* Constant tables.                                                        *)
(***************************************************************************)
Flag == [none |-> 0, requireMinimalEncoding |-> 1]

TagMajor ==
    [unsignedInteger |-> 0, negativeInteger |-> 32, byteString |-> 64,
     textString |-> 96, array |-> 128, map |-> 160, semantic |-> 192,
     floatingPoint |-> 224, simple |-> 224, mask |-> 224]

TagMinor ==
    [length1 |-> 24, length2 |-> 25, length4 |-> 26, length8 |-> 27,
     false |-> 20, true |-> 21, cborEncodedData |-> 24, mask |-> 31]

(***************************************************************************)
(* Encoder.  Every operation maps the buffer to the buffer after the call, *)
(* the value returned and the exception raised ("" for none).  A raise     *)
(* keeps the bytes appended before it.                                     *)
(***************************************************************************)
EncResult(buf, ret, err) == [buf |-> buf, ret |-> ret, err |-> err]

\* bytearray.append(x)
ByteArrayAppend(buf, x) ==
    IF x.t # "int" THEN EncResult(buf, 0, "TypeError")
    ELSE IF x.neg \/ Len(x.mag) > 1 THEN EncResult(buf, 0, "ValueError")
    ELSE EncResult(Append(buf, ToNat(x.mag)), 0, "")

\* get_byte_length with the round-up to whole bytes left out
get_byte_length_Floor(value) ==
    IF LessThanSmall(value, 24) THEN 0
    ELSE bit_length(value) \div 8

get_byte_length(value) ==
    IF LessThanSmall(value, 24) THEN 0
    ELSE (bit_length(value) + 7) \div 8

encodeTagAndAdditional(buf, tag, additional) ==
    LET a == ByteArrayAppend(buf, AddSmall(tag, additional))
    IN IF a.err # "" THEN a ELSE EncResult(a.buf, 1, "")

\* self.buf.append((value >> s) & 0xff) for each s of shifts, in order
RECURSIVE AppendShifted(_, _, _)
AppendShifted(buf, value, shifts) ==
    IF shifts = <<>> THEN buf
    ELSE AppendShifted(Append(buf, ShiftRightMask(value, Head(shifts))), value, Tail(shifts))

encodeTagAndValue(buf, tag, value) ==
    LET length == get_byte_length(value)
        minor == IF length >= 5 /\ length <= 8 THEN Nat2Py(TagMinor.length8)
                 ELSE IF length = 3 \/ length = 4 THEN Nat2Py(TagMinor.length4)
                 ELSE IF length = 2 THEN Nat2Py(TagMinor.length2)
                 ELSE IF length = 1 THEN Nat2Py(TagMinor.length1)
                 ELSE value
        shifts == IF length >= 5 /\ length <= 8 THEN <<56, 48, 40, 32, 24, 16, 8, 0>>
                  ELSE IF length = 3 \/ length = 4 THEN <<24, 16, 8, 0>>
                  ELSE IF length = 2 THEN <<8, 0>>
                  ELSE IF length = 1 THEN <<0>>
                  ELSE <<>>
        h == encodeTagAndAdditional(buf, tag, minor)
    IN IF length > 8 THEN EncResult(buf, 0, "Unsupported byte length")
       ELSE IF h.err # "" THEN h
       ELSE EncResult(AppendShifted(h.buf, value, shifts), 1 + length, "")

encodeUnsigned(buf, value) == encodeTagAndValue(buf, TagMajor.unsignedInteger, value)

encodeNegative(buf, value) == encodeTagAndValue(buf, TagMajor.negativeInteger, value)

encodeInteger(buf, value) ==
    IF ~value.neg THEN encodeUnsigned(buf, value) ELSE encodeNegative(buf, value)

encodeBool(buf, value) ==
    encodeTagAndValue(buf, TagMajor.simple,
        Nat2Py(IF value.mag # <<>> THEN TagMinor.true ELSE TagMinor.false))

encodeBytes(buf, value) ==
    LET h == encodeTagAndValue(buf, TagMajor.byteString, Nat2Py(Len(value.mag)))
    IN IF h.err # "" THEN h
       ELSE EncResult(h.buf \o value.mag, h.ret + Len(value.mag), "")

encodeEncodedBytes(buf, value) ==
    LET h == encodeTagAndValue(buf, TagMajor.semantic, Nat2Py(TagMinor.cborEncodedData))
        b == encodeBytes(h.buf, value)
    IN IF h.err # "" THEN h
       ELSE IF b.err # "" THEN b
       ELSE EncResult(b.buf, h.ret + b.ret, "")

\* bytes(value, 'utf8') for code points below 0x800
RECURSIVE utf8(_)
utf8(s) ==
    IF s = <<>> THEN <<>>
    ELSE (IF Head(s) < 128 THEN <<Head(s)>>
          ELSE <<192 + (Head(s) \div 64), 128 + (Head(s) % 64)>>) \o utf8(Tail(s))

encodeText(buf, value) ==
    LET str_len == Len(value.mag)
        h == encodeTagAndValue(buf, TagMajor.textString, Nat2Py(str_len))
        a == ByteArrayAppend(h.buf, PyBytes(utf8(value.mag)))
    IN IF h.err # "" THEN h
       ELSE IF a.err # "" THEN a
       ELSE EncResult(a.buf, h.ret + str_len, "")

encodeArraySize(buf, value) == encodeTagAndValue(buf, TagMajor.array, value)

encodeMapSize(buf, value) == encodeTagAndValue(buf, TagMajor.map, value)

(***************************************************************************)
(* Decoder.  Every operation maps the input buffer, the cursor and the     *)
(* flags to the cursor after the call, the exception raised ("" for none)  *)
(* and the tuple returned: (tag, value, length) for the header reads,      *)
(* (value, length) for the typed reads (tag is then -1).  A raise keeps    *)
(* the cursor where the code had moved it.                                 *)
(***************************************************************************)
DecResult(p, err, tag, value, length) ==
    [pos |-> p, err |-> err, tag |-> tag, value |-> value, length |-> length]

DecError(p, err) == DecResult(p, err, -1, PyNone, 0)

\* n < value, for a small n and a Python int value >= 0
NatLessThan(n, value) == Len(value.mag) > 3 \/ n < ToNat(value.mag)

\* buf[p : p + n], a Python slice: it stops at the end of buf
Slice(buf, p, n) ==
    SubSeq(buf, p + 1, IF p + n < Len(buf) THEN p + n ELSE Len(buf))

decodeTagAndAdditional(buf, p, flags) ==
    IF p = Len(buf) THEN DecError(p, "Not enough input")
    ELSE LET octet == buf[p + 1]
         IN DecResult(p + 1, "", BitAnd(octet, TagMajor.mask),
                      Nat2Py(BitAnd(octet, TagMinor.mask)), 1)

\* for shift in shifts: value |= self.buf[self.pos] << shift; self.pos += 1
RECURSIVE ReadShifted(_, _, _, _)
ReadShifted(buf, p, value, shifts) ==
    IF shifts = <<>> THEN [value |-> value, pos |-> p, err |-> ""]
    ELSE IF p >= Len(buf) THEN [value |-> value, pos |-> p, err |-> "IndexError"]
    ELSE ReadShifted(buf, p + 1, OrShiftLeft(value, buf[p + 1], Head(shifts)), Tail(shifts))

decodeTagAndValue(buf, p, flags) ==
    LET end == Len(buf)
        h == decodeTagAndAdditional(buf, p, flags)
        additional == ToNat(h.value.mag)
        shifts == IF additional = TagMinor.length8 THEN <<56, 48, 40, 32, 24, 16, 8, 0>>
                  ELSE IF additional = TagMinor.length4 THEN <<24, 16, 8, 0>>
                  ELSE IF additional = TagMinor.length2 THEN <<8, 0>>
                  ELSE <<0>>
        r == ReadShifted(buf, h.pos, Nat2Py(0), shifts)
    IN IF p = end THEN DecError(p, "Not enough input")
       ELSE IF h.err # "" THEN h
       ELSE IF additional < TagMinor.length1 THEN DecResult(h.pos, "", h.tag, h.value, h.length)
       ELSE IF additional \notin {TagMinor.length8, TagMinor.length4,
                                  TagMinor.length2, TagMinor.length1}
            THEN DecError(h.pos, "Bad additional value")
       ELSE IF end - h.pos < Len(shifts) THEN DecError(h.pos, "Not enough input")
       ELSE IF r.err # "" THEN DecError(r.pos, r.err)
       ELSE IF BitAnd(flags, Flag.requireMinimalEncoding) # 0 /\ r.value = Nat2Py(0)
            THEN DecError(r.pos, "Encoding not minimal")
       ELSE DecResult(r.pos, "", h.tag, r.value, r.pos)

decodeUnsigned(buf, p, flags) ==
    LET h == decodeTagAndValue(buf, p, flags)
    IN IF h.err # "" THEN h
       ELSE IF h.tag # TagMajor.unsignedInteger
            THEN DecError(h.pos, "Expected Tag.Major.unsignedInteger")
       ELSE DecResult(h.pos, "", -1, h.value, h.length)

decodeNegative(buf, p, flags) ==
    LET h == decodeTagAndValue(buf, p, flags)
    IN IF h.err # "" THEN h
       ELSE IF h.tag # TagMajor.negativeInteger
            THEN DecError(h.pos, "Expected Tag.Major.negativeInteger")
       ELSE DecResult(h.pos, "", -1, h.value, h.length)

\* With any other tag the function ends without a return statement: it
\* returns None and raises nothing.
decodeInteger(buf, p, flags) ==
    LET h == decodeTagAndValue(buf, p, flags)
    IN IF h.err # "" THEN h
       ELSE IF h.tag = TagMajor.unsignedInteger THEN DecResult(h.pos, "", -1, h.value, h.length)
       ELSE IF h.tag = TagMajor.negativeInteger
            THEN DecResult(h.pos, "", -1, MinusOneMinus(h.value), h.length)
       ELSE DecResult(h.pos, "", -1, PyNone, 0)

decodeBool(buf, p, flags) ==
    LET h == decodeTagAndValue(buf, p, flags)
    IN IF h.err # "" THEN h
       ELSE IF h.tag # TagMajor.simple THEN DecError(h.pos, "Not Simple/Boolean")
       ELSE IF h.value = Nat2Py(TagMinor.true) THEN DecResult(h.pos, "", -1, PyBool(TRUE), h.length)
       ELSE IF h.value = Nat2Py(TagMinor.false) THEN DecResult(h.pos, "", -1, PyBool(FALSE), h.length)
       ELSE DecError(h.pos, "Not a Boolean")

\* decodeBytes with the check of the payload against the end left out
decodeBytes_Unchecked(buf, p, flags) ==
    LET h == decodeTagAndValue(buf, p, flags)
        byte_length == h.value
    IN IF h.err # "" THEN h
       ELSE IF h.tag # TagMajor.byteString THEN DecError(h.pos, "Not a byteString")
       ELSE DecResult(h.pos + ToNat(byte_length.mag), "", -1,
                      PyBytes(Slice(buf, h.pos, ToNat(byte_length.mag))),
                      h.length + ToNat(byte_length.mag))

decodeBytes(buf, p, flags) ==
    LET h == decodeTagAndValue(buf, p, flags)
        byte_length == h.value
        end == Len(buf)
    IN IF h.err # "" THEN h
       ELSE IF h.tag # TagMajor.byteString THEN DecError(h.pos, "Not a byteString")
       ELSE IF NatLessThan(end - h.pos, byte_length) THEN DecError(h.pos, "Not enough input")
       ELSE DecResult(h.pos + ToNat(byte_length.mag), "", -1,
                      PyBytes(Slice(buf, h.pos, ToNat(byte_length.mag))),
                      h.length + ToNat(byte_length.mag))

decodeEncodedBytesPrefix(buf, p, flags) ==
    LET h1 == decodeTagAndValue(buf, p, flags)
        h2 == decodeTagAndValue(buf, h1.pos, flags)
    IN IF h1.err # "" THEN h1
       ELSE IF h1.tag # TagMajor.semantic \/ h1.value # Nat2Py(TagMinor.cborEncodedData)
            THEN DecError(h1.pos, "Not CBOR Encoded Data")
       ELSE IF h2.err # "" THEN h2
       ELSE IF h2.tag # TagMajor.byteString THEN DecError(h2.pos, "Not byteString")
       ELSE DecResult(h2.pos, "", h2.tag, h2.value, h1.length + h2.length)

decodeEncodedBytes(buf, p, flags) ==
    LET h == decodeTagAndValue(buf, p, flags)
        b == decodeBytes(buf, h.pos, flags)
    IN IF h.err # "" THEN h
       ELSE IF h.tag # TagMajor.semantic \/ h.value # Nat2Py(TagMinor.cborEncodedData)
            THEN DecError(h.pos, "Not CBOR Encoded Data")
       ELSE IF b.err # "" THEN b
       ELSE DecResult(b.pos, "", -1, b.value, h.length + b.length)

decodeText(buf, p, flags) ==
    LET h == decodeTagAndValue(buf, p, flags)
        byte_length == h.value
        end == Len(buf)
    IN IF h.err # "" THEN h
       ELSE IF h.tag # TagMajor.textString THEN DecError(h.pos, "Not a textString")
       ELSE IF NatLessThan(end - h.pos, byte_length) THEN DecError(h.pos, "Not enough input")
       ELSE DecResult(h.pos + ToNat(byte_length.mag), "", -1,
                      PyBytes(Slice(buf, h.pos, ToNat(byte_length.mag))),
                      h.length + ToNat(byte_length.mag))

decodeArraySize(buf, p, flags) ==
    LET h == decodeTagAndValue(buf, p, flags)
    IN IF h.err # "" THEN h
       ELSE IF h.tag # TagMajor.array THEN DecError(h.pos, "Expected Tag.Major.array")
       ELSE DecResult(h.pos, "", -1, h.value, h.length)

decodeMapSize(buf, p, flags) ==
    LET h == decodeTagAndValue(buf, p, flags)
    IN IF h.err # "" THEN h
       ELSE IF h.tag # TagMajor.mask THEN DecError(h.pos, "Expected Tag.Major.map")
       ELSE DecResult(h.pos, "", -1, h.value, h.length)

(***************************************************************************)
(* Inputs.                                                                 *)
(***************************************************************************)
Rep(d, n) == [i \in 1..n |-> d]

Pattern(n) == [i \in 1..n |-> (7 * i + 3) % 256]

\* 0, 1, 23, 24, 255, 256, 65535, 65536, 2^32-1, 2^32, 2^64-1, and three
\* magnitudes with pairwise distinct digits: 0x1234, 0x0A0B0C and
\* 0x0807060504030201
Magnitudes ==
    {<<>>, <<1>>, <<23>>, <<24>>, <<255>>, <<0, 1>>, <<255, 255>>, <<0, 0, 1>>,
     Rep(255, 4), <<0, 0, 0, 0, 1>>, Rep(255, 8),
     <<52, 18>>, <<12, 11, 10>>, <<1, 2, 3, 4, 5, 6, 7, 8>>}

\* 2^64, one more than the largest magnitude a header can carry
TwoTo64 == Rep(0, 8) \o <<1>>

UnsignedInputs == {PyInt(FALSE, m) : m \in Magnitudes \cup {TwoTo64}}

CountInputs == {PyInt(FALSE, m) : m \in {<<>>, <<23>>, <<24>>, <<0, 0, 1>>, Rep(255, 8)}}

\* 5, 2^32, -1, -9, -24, -25, -32, -33, -256, -2^64
IntegerInputs ==
    {PyInt(FALSE, <<5>>), PyInt(FALSE, <<0, 0, 0, 0, 1>>)}
    \cup {PyInt(TRUE, m) : m \in {<<1>>, <<9>>, <<24>>, <<25>>, <<32>>, <<33>>, <<0, 1>>, TwoTo64}}

BoolInputs == {PyBool(TRUE), PyBool(FALSE)}

BytesInputs == {PyBytes(<<>>), PyBytes(<<200>>), PyBytes(Pattern(23)), PyBytes(Pattern(24))}

\* "", "a", "hi" and "e" with an acute accent (two bytes of UTF-8)
TextInputs == {PyStr(<<>>), PyStr(<<97>>), PyStr(<<104, 105>>), PyStr(<<233>>)}

\* (tag, additional) pairs handed to encodeTagAndAdditional directly
HeaderInputs ==
    {<<TagMajor.unsignedInteger, 24>>, <<TagMajor.unsignedInteger, 28>>,
     <<TagMajor.byteString, 2>>, <<TagMajor.simple, 22>>}

FlagInputs == {Flag.none, Flag.requireMinimalEncoding}

(***************************************************************************)
(* State.  enc is CBOREncoder.buf; log records the encode calls made, each *)
(* with the buffer length it started at, what it returned and what it      *)
(* raised.  dstate tells whether a CBORDecoder exists; dbuf and pos are    *)
(* its buf and pos.  last records the latest decode call: the cursor it    *)
(* started at, what it returned and what it raised; ndec counts the decode *)
(* calls.                                                                  *)
(***************************************************************************)
NoCall == [op |-> "", flags |-> 0, start |-> 0, err |-> "", tag |-> -1,
           value |-> PyNone, length |-> 0]

Init ==
    /\ enc = <<>>
    /\ log = <<>>
    /\ dstate = "none"
    /\ dbuf = <<>>
    /\ pos = 0
    /\ ndec = 0
    /\ last = NoCall

\* One call on the encoder; r is what the operation makes of the buffer.
Encode(op, tag, arg, r, n) ==
    /\ dstate = "none"
    /\ Len(log) < n
    /\ enc' = r.buf
    /\ log' = Append(log, [op |-> op, tag |-> tag, arg |-> arg, start |-> Len(enc),
                           ret |-> r.ret, err |-> r.err])
    /\ UNCHANGED <<dstate, dbuf, pos, ndec, last>>

EncodeTagAndAdditional(S, n) ==
    \E h \in S : Encode("encodeTagAndAdditional", h[1], Nat2Py(h[2]),
                        encodeTagAndAdditional(enc, h[1], Nat2Py(h[2])), n)

EncodeUnsigned(S, n) ==
    \E v \in S : Encode("encodeUnsigned", -1, v, encodeUnsigned(enc, v), n)

EncodeNegative(S, n) ==
    \E v \in S : Encode("encodeNegative", -1, v, encodeNegative(enc, v), n)

EncodeInteger(S, n) ==
    \E v \in S : Encode("encodeInteger", -1, v, encodeInteger(enc, v), n)

EncodeBool(S, n) ==
    \E v \in S : Encode("encodeBool", -1, v, encodeBool(enc, v), n)

EncodeBytes(S, n) ==
    \E v \in S : Encode("encodeBytes", -1, v, encodeBytes(enc, v), n)

EncodeEncodedBytes(S, n) ==
    \E v \in S : Encode("encodeEncodedBytes", -1, v, encodeEncodedBytes(enc, v), n)

EncodeText(S, n) ==
    \E v \in S : Encode("encodeText", -1, v, encodeText(enc, v), n)

EncodeArraySize(S, n) ==
    \E v \in S : Encode("encodeArraySize", -1, v, encodeArraySize(enc, v), n)

EncodeMapSize(S, n) ==
    \E v \in S : Encode("encodeMapSize", -1, v, encodeMapSize(enc, v), n)

\* CBORDecoder(buf) over the first k bytes the encoder produced, k in K.
NewDecoder(K) ==
    /\ dstate = "none"
    /\ \E k \in K : dbuf' = SubSeq(enc, 1, k)
    /\ dstate' = "open"
    /\ pos' = 0
    /\ UNCHANGED <<enc, log, ndec, last>>

\* One call on the decoder; r is what the operation makes of buf and pos.
Decode(op, flags, r, n) ==
    /\ dstate = "open"
    /\ ndec < n
    /\ pos' = r.pos
    /\ last' = [op |-> op, flags |-> flags, start |-> pos, err |-> r.err,
                tag |-> r.tag, value |-> r.value, length |-> r.length]
    /\ ndec' = ndec + 1
    /\ UNCHANGED <<enc, log, dstate, dbuf>>

DecodeTagAndAdditional(n) ==
    \E f \in FlagInputs :
        Decode("decodeTagAndAdditional", f, decodeTagAndAdditional(dbuf, pos, f), n)

DecodeTagAndValue(n) ==
    \E f \in FlagInputs : Decode("decodeTagAndValue", f, decodeTagAndValue(dbuf, pos, f), n)

DecodeUnsigned(n) ==
    \E f \in FlagInputs : Decode("decodeUnsigned", f, decodeUnsigned(dbuf, pos, f), n)

DecodeNegative(n) ==
    \E f \in FlagInputs : Decode("decodeNegative", f, decodeNegative(dbuf, pos, f), n)

DecodeInteger(n) ==
    \E f \in FlagInputs : Decode("decodeInteger", f, decodeInteger(dbuf, pos, f), n)

DecodeBool(n) ==
    \E f \in FlagInputs : Decode("decodeBool", f, decodeBool(dbuf, pos, f), n)

DecodeBytes(n) ==
    \E f \in FlagInputs : Decode("decodeBytes", f, decodeBytes(dbuf, pos, f), n)

DecodeEncodedBytesPrefix(n) ==
    \E f \in FlagInputs :
        Decode("decodeEncodedBytesPrefix", f, decodeEncodedBytesPrefix(dbuf, pos, f), n)

DecodeEncodedBytes(n) ==
    \E f \in FlagInputs : Decode("decodeEncodedBytes", f, decodeEncodedBytes(dbuf, pos, f), n)

DecodeText(n) ==
    \E f \in FlagInputs : Decode("decodeText", f, decodeText(dbuf, pos, f), n)

DecodeArraySize(n) ==
    \E f \in FlagInputs : Decode("decodeArraySize", f, decodeArraySize(dbuf, pos, f), n)

DecodeMapSize(n) ==
    \E f \in FlagInputs : Decode("decodeMapSize", f, decodeMapSize(dbuf, pos, f), n)

(***************************************************************************)
(* Spec: one value.  A fresh encoder takes one call; a fresh decoder over  *)
(* the bytes produced takes one call.                                      *)
(***************************************************************************)
Next ==
    \/ EncodeTagAndAdditional(HeaderInputs, 1)
    \/ EncodeUnsigned(UnsignedInputs, 1)
    \/ EncodeNegative(CountInputs, 1)
    \/ EncodeInteger(IntegerInputs, 1)
    \/ EncodeBool(BoolInputs, 1)
    \/ EncodeBytes(BytesInputs, 1)
    \/ EncodeEncodedBytes(BytesInputs, 1)
    \/ EncodeText(TextInputs, 1)
    \/ EncodeArraySize(CountInputs, 1)
    \/ EncodeMapSize(CountInputs, 1)
    \/ NewDecoder({Len(enc)})
    \/ DecodeTagAndAdditional(1)
    \/ DecodeTagAndValue(1)
    \/ DecodeUnsigned(1)
    \/ DecodeNegative(1)
    \/ DecodeInteger(1)
    \/ DecodeBool(1)
    \/ DecodeBytes(1)
    \/ DecodeEncodedBytesPrefix(1)
    \/ DecodeEncodedBytes(1)
    \/ DecodeText(1)
    \/ DecodeArraySize(1)
    \/ DecodeMapSize(1)

Spec == Init /\ [][Next]_vars

(***************************************************************************)
(* SpecStream: several values.  The encoder takes up to MaxEncodes calls,  *)
(* the decoder is built over the bytes produced or over a prefix of them   *)
(* and takes up to MaxDecodes calls, failed ones included, so that a call  *)
(* may start at any cursor position.  The prefixes taken are those that    *)
(* cut the bytes of the latest encode call: a shorter prefix is a prefix   *)
(* of what the encoder held one call earlier, which is taken there.        *)
(***************************************************************************)
MaxEncodes == 2

MaxDecodes == 2

\* 0 (inline), 24 (one-byte field), 256 (two-byte field), 65536 (four-byte
\* field), 2^32 (eight-byte field)
StreamUnsigned ==
    {PyInt(FALSE, m) : m \in {<<>>, <<24>>, <<0, 1>>, <<0, 0, 1>>, <<0, 0, 0, 0, 1>>}}

StreamBytes == {PyBytes(<<200, 201>>)}

StreamHeaders ==
    {<<TagMajor.unsignedInteger, 24>>, <<TagMajor.unsignedInteger, 28>>,
     <<TagMajor.textString, 24>>}

LastValueCuts == (IF log = <<>> THEN 0 ELSE log[Len(log)].start) .. Len(enc)

NextStream ==
    \/ EncodeTagAndAdditional(StreamHeaders, MaxEncodes)
    \/ EncodeUnsigned(StreamUnsigned, MaxEncodes)
    \/ EncodeBool({PyBool(TRUE)}, MaxEncodes)
    \/ EncodeBytes(StreamBytes, MaxEncodes)
    \/ EncodeEncodedBytes(StreamBytes, MaxEncodes)
    \/ NewDecoder(LastValueCuts)
    \/ DecodeTagAndAdditional(MaxDecodes)
    \/ DecodeTagAndValue(MaxDecodes)
    \/ DecodeUnsigned(MaxDecodes)
    \/ DecodeNegative(MaxDecodes)
    \/ DecodeInteger(MaxDecodes)
    \/ DecodeBool(MaxDecodes)
    \/ DecodeBytes(MaxDecodes)
    \/ DecodeEncodedBytesPrefix(MaxDecodes)
    \/ DecodeEncodedBytes(MaxDecodes)
    \/ DecodeText(MaxDecodes)
    \/ DecodeArraySize(MaxDecodes)
    \/ DecodeMapSize(MaxDecodes)

SpecStream == Init /\ [][NextStream]_vars

(***************************************************************************)
(* What the claims speak of.                                               *)
(***************************************************************************)
\* The encoder took exactly one call, op.
First(op) == Len(log) = 1 /\ log[1].op = op

\* The decoder took exactly one call, op (at cursor 0).
Decoded(op) == dstate = "open" /\ ndec = 1 /\ last.op = op

\* 0 <= v <= 2^64 - 1
In64(v) == ~v.neg /\ Len(v.mag) <= 8

Widths == {0, 1, 2, 4, 8}

\* A field of w bytes can hold the magnitude (w = 0: the minor indicator can).
HoldsIn(mag, w) == IF w = 0 THEN Len(mag) = 0 \/ (Len(mag) = 1 /\ mag[1] < 24) ELSE Len(mag) <= w

SmallestWidth(mag) ==
    CHOOSE w \in Widths : HoldsIn(mag, w) /\ \A u \in Widths : HoldsIn(mag, u) => w <= u

MinorOf(mag, w) ==
    CASE w = 0 -> (IF mag = <<>> THEN 0 ELSE mag[1])
      [] w = 1 -> 24
      [] w = 2 -> 25
      [] w = 4 -> 26
      [] w = 8 -> 27

\* The magnitude in w bytes, most significant first.
BigEndian(mag, w) == [i \in 1..w |-> IF w + 1 - i <= Len(mag) THEN mag[w + 1 - i] ELSE 0]

\* The header the format prescribes for a tag and a magnitude below 2^64.
Header(tag, mag) ==
    <<tag + MinorOf(mag, SmallestWidth(mag))>> \o BigEndian(mag, SmallestWidth(mag))

HeaderOps == {"encodeUnsigned", "encodeNegative", "encodeArraySize", "encodeMapSize"}

OpTag(op) ==
    CASE op = "encodeUnsigned" -> 0
      [] op = "encodeNegative" -> 32
      [] op = "encodeArraySize" -> 128
      [] op = "encodeMapSize" -> 160

\* The major tag of the octet at index i (from 0) of buf.
TagAt(buf, i) == buf[i + 1] - (buf[i + 1] % 32)

MinorAt(buf, i) == buf[i + 1] % 32

FieldWidth(additional) ==
    CASE additional = 24 -> 1
      [] additional = 25 -> 2
      [] additional = 26 -> 4
      [] additional = 27 -> 8
      [] OTHER -> 0

\* The magnitude of the header at index i of buf, all of whose bytes are in buf.
MagAt(buf, i) ==
    LET w == FieldWidth(MinorAt(buf, i))
    IN IF w = 0 THEN FromNat(MinorAt(buf, i))
       ELSE Normalize([k \in 1..w |-> buf[i + 1 + (w + 1 - k)]])

TypeMismatch ==
    {"Expected Tag.Major.unsignedInteger", "Expected Tag.Major.negativeInteger",
     "Expected Tag.Major.array", "Expected Tag.Major.map", "Not a byteString",
     "Not a textString", "Not Simple/Boolean", "Not CBOR Encoded Data", "Type mismatch"}

\* The one call on the encoder was a typed one that raised nothing, and the
\* header it wrote is one a header read accepts.
WellFormedFirst ==
    /\ Len(log) = 1
    /\ log[1].err = ""
    /\ log[1].op # "encodeTagAndAdditional"
    /\ dbuf = enc
    /\ MinorAt(dbuf, 0) <= 27

(***************************************************************************)
(* C1.  Unsigned round trip: for every magnitude v in 0..2^64-1,           *)
(* encodeUnsigned(v) on a fresh encoder followed by decodeUnsigned on a    *)
(* fresh decoder over the bytes produced returns v, and the byte count     *)
(* encodeUnsigned returned equals the byte count decodeUnsigned returned.  *)
(***************************************************************************)
C1_UnsignedRoundTrip ==
    (First("encodeUnsigned") /\ In64(log[1].arg) /\ Decoded("decodeUnsigned")) =>
        /\ log[1].err = ""
        /\ last.err = ""
        /\ last.value = log[1].arg
        /\ last.length = log[1].ret

(***************************************************************************)
(* C2.  On one decoder, whatever the cursor a call starts at, the byte     *)
(* count a successful decode call returns equals the amount the cursor     *)
(* advanced during that call.                                              *)
(***************************************************************************)
C2_CountIsAdvance ==
    (dstate = "open" /\ ndec >= 1 /\ last.err = "" /\ last.value # PyNone) =>
        last.length = pos - last.start

(***************************************************************************)
(* C3.  For every magnitude v in 0..2^64-1 a header encode appends exactly *)
(* one header octet and w big-endian magnitude bytes, w the smallest of    *)
(* 0, 1, 2, 4, 8 that holds v (w = 0 iff v < 24, v then being the minor    *)
(* indicator, else the indicator is 24, 25, 26, 27 for w = 1, 2, 4, 8);    *)
(* so 23 takes 1 byte, 24 takes 2, 256 takes 3 and 65536 takes 5.          *)
(***************************************************************************)
C3_MinimalHeader ==
    (Len(log) = 1 /\ log[1].op \in HeaderOps /\ In64(log[1].arg)) =>
        /\ log[1].err = ""
        /\ enc = Header(OpTag(log[1].op), log[1].arg.mag)
        /\ Len(enc) - 1 \in Widths
        /\ (Len(enc) = 1 <=> LessThanSmall(log[1].arg, 24))
        /\ log[1].arg.mag = <<23>> => Len(enc) = 1
        /\ log[1].arg.mag = <<24>> => Len(enc) = 2
        /\ log[1].arg.mag = <<0, 1>> => Len(enc) = 3
        /\ log[1].arg.mag = <<0, 0, 1>> => Len(enc) = 5

C3_Witness ==
    /\ First("encodeUnsigned")
    /\ log[1].arg.mag = <<0, 0, 1>>
    /\ enc = <<26, 0, 1, 0, 0>>

(***************************************************************************)
(* C4.  For every n with -2^64 <= n <= -1, encodeInteger(n) writes the     *)
(* header with the negative-integer tag and the magnitude -1 - n, and      *)
(* decodeInteger over the bytes produced returns n; for n >= 0 it writes   *)
(* the unsigned-integer tag with the magnitude n and decodeInteger         *)
(* returns n.                                                              *)
(***************************************************************************)
C4_IntegerRoundTrip ==
    (First("encodeInteger")
       /\ Len(IF log[1].arg.neg THEN Normalize(SubMag(log[1].arg.mag, 1))
              ELSE log[1].arg.mag) <= 8) =>
        /\ log[1].err = ""
        /\ enc = IF log[1].arg.neg
                 THEN Header(TagMajor.negativeInteger, Normalize(SubMag(log[1].arg.mag, 1)))
                 ELSE Header(TagMajor.unsignedInteger, log[1].arg.mag)
        /\ Decoded("decodeInteger") => (last.err = "" /\ last.value = log[1].arg)

(***************************************************************************)
(* C5.  For every count c in 0..2^64-1, encodeMapSize(c) then              *)
(* decodeMapSize returns c and encodeArraySize(c) then decodeArraySize     *)
(* returns c; decodeMapSize succeeds exactly when the header's major tag   *)
(* is the map tag, and fails with a type mismatch otherwise.               *)
(***************************************************************************)
C5_SizeRoundTrip ==
    /\ (First("encodeMapSize") /\ In64(log[1].arg) /\ Decoded("decodeMapSize")) =>
           (last.err = "" /\ last.value = log[1].arg)
    /\ (First("encodeArraySize") /\ In64(log[1].arg) /\ Decoded("decodeArraySize")) =>
           (last.err = "" /\ last.value = log[1].arg)
    /\ (WellFormedFirst /\ Decoded("decodeMapSize")) =>
           /\ last.err = "" <=> TagAt(dbuf, 0) = TagMajor.map
           /\ TagAt(dbuf, 0) # TagMajor.map => last.err \in TypeMismatch

(***************************************************************************)
(* C6.  For every payload p, of fewer than 24 bytes or of 24 and more,     *)
(* encodeEncodedBytes(p) then decodeEncodedBytes returns p, and the length *)
(* decodeEncodedBytes returns is the outer semantic-tag header length plus *)
(* the inner byte-string header length plus len(p), which is the length of *)
(* the buffer produced and the value encodeEncodedBytes returned.          *)
(***************************************************************************)
C6_EncodedBytesRoundTrip ==
    (First("encodeEncodedBytes") /\ Decoded("decodeEncodedBytes")) =>
        /\ last.err = ""
        /\ last.value = log[1].arg
        /\ last.length = Len(Header(TagMajor.semantic, <<24>>))
                         + Len(Header(TagMajor.byteString, FromNat(Len(log[1].arg.mag))))
                         + Len(log[1].arg.mag)
        /\ last.length = Len(enc)
        /\ last.length = log[1].ret

(***************************************************************************)
(* C7.  For every payload of N bytes, encodeBytes and encodeText (the text *)
(* transcoded to UTF-8) succeed, append a header with the magnitude N and  *)
(* then the N payload bytes verbatim, and return header bytes + N; the     *)
(* matching decodeBytes or decodeText returns the payload bytes.           *)
(***************************************************************************)
C7_StringRoundTrip ==
    \A op \in {"encodeBytes", "encodeText"} :
        First(op) =>
            LET payload == IF op = "encodeBytes" THEN log[1].arg.mag ELSE utf8(log[1].arg.mag)
                tag == IF op = "encodeBytes" THEN TagMajor.byteString ELSE TagMajor.textString
                dop == IF op = "encodeBytes" THEN "decodeBytes" ELSE "decodeText"
            IN /\ log[1].err = ""
               /\ enc = Header(tag, FromNat(Len(payload))) \o payload
               /\ log[1].ret = Len(enc)
               /\ Decoded(dop) => (last.err = "" /\ last.value = PyBytes(payload))

(***************************************************************************)
(* C8.  decodeUnsigned, decodeNegative and decodeInteger each end in a     *)
(* type-mismatch error, never in a normal return, when the header's major  *)
(* tag is not one they expect: unsigned-integer for decodeUnsigned,        *)
(* negative-integer for decodeNegative, either for decodeInteger.          *)
(***************************************************************************)
C8_IntegerTagMismatch ==
    (WellFormedFirst /\ dstate = "open" /\ ndec = 1) =>
        /\ (last.op = "decodeUnsigned" /\ TagAt(dbuf, 0) # TagMajor.unsignedInteger)
               => last.err \in TypeMismatch
        /\ (last.op = "decodeNegative" /\ TagAt(dbuf, 0) # TagMajor.negativeInteger)
               => last.err \in TypeMismatch
        /\ (last.op = "decodeInteger"
              /\ TagAt(dbuf, 0) \notin {TagMajor.unsignedInteger, TagMajor.negativeInteger})
               => last.err \in TypeMismatch

(***************************************************************************)
(* C9.  The cursor advances only on successful reads: a decode call that   *)
(* fails leaves pos where it was before the call; and pos never decreases. *)
(***************************************************************************)
C9_FailureKeepsCursor ==
    (dstate = "open" /\ ndec >= 1) =>
        /\ last.err # "" => pos = last.start
        /\ pos >= last.start

(***************************************************************************)
(* C10.  For any input buffer, strict prefixes of valid encodings          *)
(* included, and any sequence of decode calls with any flags,              *)
(* 0 <= pos <= len(buf) always holds and no byte at an index >= len(buf)   *)
(* is read; a call that needs a header octet, a 1/2/4/8-byte magnitude     *)
(* field or a string payload that extends past the end fails with "Not     *)
(* enough input" and returns no truncated value.                           *)
(***************************************************************************)
C10_BoundsChecked ==
    dstate = "open" =>
        /\ 0 <= pos /\ pos <= Len(dbuf)
        /\ last.err # "IndexError"
        /\ ndec >= 1 =>
            LET i == last.start
                w == FieldWidth(MinorAt(dbuf, i))
                string == \/ last.op = "decodeBytes" /\ TagAt(dbuf, i) = TagMajor.byteString
                          \/ last.op = "decodeText" /\ TagAt(dbuf, i) = TagMajor.textString
                minimal == last.flags = Flag.none \/ w = 0 \/ MagAt(dbuf, i) # <<>>
            IN /\ i = Len(dbuf) => last.err = "Not enough input"
               /\ (i < Len(dbuf) /\ last.op # "decodeTagAndAdditional" /\ i + 1 + w > Len(dbuf))
                      => last.err = "Not enough input"
               /\ (i < Len(dbuf) /\ i + 1 + w <= Len(dbuf) /\ MinorAt(dbuf, i) <= 27
                     /\ string /\ minimal)
                      => IF NatLessThan(Len(dbuf) - (i + 1 + w), PyInt(FALSE, MagAt(dbuf, i)))
                         THEN last.err = "Not enough input"
                         ELSE /\ last.err = ""
                              /\ last.value = PyBytes(SubSeq(dbuf, i + 1 + w + 1,
                                                   i + 1 + w + ToNat(MagAt(dbuf, i))))

\* A header octet was read and the magnitude field it announces is cut short.
C10_Witness ==
    /\ dstate = "open"
    /\ ndec >= 1
    /\ last.start < Len(dbuf)
    /\ FieldWidth(MinorAt(dbuf, last.start)) = 8
    /\ last.start + 9 > Len(dbuf)
    /\ last.op = "decodeUnsigned"
    /\ last.err = "Not enough input"

====
